---- MODULE Spec2Model ----
(***************************************************************************)
(* Smart Recipe Generator (src/src/App.tsx): the App router, the HomePage  *)
(* ingredient collector with its photo recognition flow, and the           *)
(* RecipesPage with its generation request and client-side filter.         *)
(*                                                                         *)
(* A component that is not rendered has no state: unmounting a component   *)
(* puts its variables back to their useState initial values, and the       *)
(* asynchronous callbacks it started keep running with live = FALSE, so    *)
(* that their state setters do nothing.                                    *)
(*                                                                         *)
(* A string the code transforms (an ingredient) is a tuple of one-char     *)
(* strings; a message is a tuple of its concatenated parts; an optional    *)
(* value (T | null) is the empty tuple or a one-element tuple.             *)
(***************************************************************************)
EXTENDS Integers, Sequences, FiniteSets, TLC

VARIABLES
    \* App
    page, searchParams, selectedRecipe,
    \* HomePage
    ingredients, dietary, servings, cuisine,
    imageFile, isRecognizing, recognitionError,
    \* recognition attempts in flight, and the image selections made so far
    recognitions, selections,
    \* RecipesPage
    recipes, isLoading, error,
    difficultyFilter, maxTimeFilter, filteredRecipes,
    pendingEffects,
    \* generation requests in flight, the number of requests sent and the
    \* body of the last one, the number of mounts of RecipesPage, and the
    \* request and Response whose outcome the mounted page holds
    \* (refetches counts the requests whose body equalled the one before)
    requests, issuedCount, lastIssued, refetches, visits, shownFrom, response

appVars == <<page, searchParams, selectedRecipe>>
netVars == <<requests, issuedCount, lastIssued, refetches, visits>>
homeVars == <<ingredients, dietary, servings, cuisine,
              imageFile, isRecognizing, recognitionError>>
recipesVars == <<recipes, isLoading, error, difficultyFilter, maxTimeFilter,
                 filteredRecipes, pendingEffects, shownFrom, response>>
vars == <<page, searchParams, selectedRecipe,
          ingredients, dietary, servings, cuisine,
          imageFile, isRecognizing, recognitionError,
          recognitions, selections,
          recipes, isLoading, error,
          difficultyFilter, maxTimeFilter, filteredRecipes,
          pendingEffects, requests, issuedCount, lastIssued, refetches, visits,
          shownFrom, response>>

-----------------------------------------------------------------------------
\* Bounds of the model.

\* handleAddIngredient / addPopularIngredient are explored while the store
\* holds fewer entries than this.
MaxIngredients == 2
\* The + button is explored while servings is below this.
MaxServings == 2
\* Image selections (handleImageChange) made in one behaviour.
MaxSelections == 2
NavMaxSelections == 1
\* Visits of the recipes screen (Find Recipes clicks) in one behaviour.
MaxVisits == 2
StoreMaxVisits == 1
FetchMaxVisits == 1

-----------------------------------------------------------------------------
\* Strings.

Null == <<>>
Some(x) == <<x>>

Includes(seq, x) == \E i \in 1..Len(seq) : seq[i] = x

UpperToLower ==
    [c \in {"A","B","C","D","E","F","G","H","I","J","K","L","M",
            "N","O","P","Q","R","S","T","U","V","W","X","Y","Z"} |->
        CASE c = "A" -> "a" [] c = "B" -> "b" [] c = "C" -> "c" [] c = "D" -> "d"
          [] c = "E" -> "e" [] c = "F" -> "f" [] c = "G" -> "g" [] c = "H" -> "h"
          [] c = "I" -> "i" [] c = "J" -> "j" [] c = "K" -> "k" [] c = "L" -> "l"
          [] c = "M" -> "m" [] c = "N" -> "n" [] c = "O" -> "o" [] c = "P" -> "p"
          [] c = "Q" -> "q" [] c = "R" -> "r" [] c = "S" -> "s" [] c = "T" -> "t"
          [] c = "U" -> "u" [] c = "V" -> "v" [] c = "W" -> "w" [] c = "X" -> "x"
          [] c = "Y" -> "y" [] c = "Z" -> "z"]

\* String.prototype.toLowerCase
toLowerCase(s) ==
    [i \in 1..Len(s) |-> IF s[i] \in DOMAIN UpperToLower THEN UpperToLower[s[i]] ELSE s[i]]

RECURSIVE TrimStart(_)
TrimStart(s) == IF s # <<>> /\ Head(s) = " " THEN TrimStart(Tail(s)) ELSE s

RECURSIVE TrimEnd(_)
TrimEnd(s) ==
    IF s # <<>> /\ s[Len(s)] = " " THEN TrimEnd(SubSeq(s, 1, Len(s) - 1)) ELSE s

\* String.prototype.trim
trim(s) == TrimEnd(TrimStart(s))

\* Array.from(new Set(list)): the first occurrence of each value, in order.
RECURSIVE ArrayFromSet(_)
ArrayFromSet(list) ==
    IF list = <<>> THEN <<>>
    ELSE LET init == ArrayFromSet(SubSeq(list, 1, Len(list) - 1))
             last == list[Len(list)]
         IN IF Includes(init, last) THEN init ELSE Append(init, last)

popularIngredients ==
    << <<"C","h","i","c","k","e","n">>, <<"B","e","e","f">>, <<"R","i","c","e">>,
       <<"P","a","s","t","a">>, <<"T","o","m","a","t","o","e","s">>,
       <<"O","n","i","o","n","s">>, <<"G","a","r","l","i","c">>,
       <<"B","e","l","l"," ","P","e","p","p","e","r","s">>,
       <<"C","h","e","e","s","e">>, <<"E","g","g","s">>,
       <<"P","o","t","a","t","o","e","s">>, <<"C","a","r","r","o","t","s">> >>

cuisines ==
    <<"Any", "Italian", "Mexican", "Indian", "Asian", "American", "Mediterranean">>

DietaryKeys == <<"vegetarian", "vegan", "glutenfree">>

Difficulties == <<"Easy", "Medium", "Hard">>

-----------------------------------------------------------------------------
\* The fetch API: a Response and its body.
\*
\* A body is the text  open ++ json ++ close : open is "" or a leading
\* json code fence with its newline, close is "", a trailing fence, or a
\* trailing fence followed by a newline. json is the text between them,
\* given by what JSON.parse makes of it: an array (items), an object (with an
\* optional error member), or no JSON at all ("invalid"). In the texts
\* <fence> stands for three backquotes and <nl> for a newline.

FenceOpen == "<fence>json<nl>"
FenceClose == "<nl><fence>"
FenceCloseNewline == "<nl><fence><nl>"
Newline == "<nl>"

ArrayText(items) == [kind |-> "array", items |-> items, error |-> Null]
ObjectText(err) == [kind |-> "object", items |-> <<>>, error |-> err]
InvalidText == [kind |-> "invalid", items |-> <<>>, error |-> Null]

Body(open, json, close) == [open |-> open, json |-> json, close |-> close]
Plain(json) == Body("", json, "")

\* fetch() resolved with a Response / rejected with a network TypeError.
HttpResponse(status, body) ==
    [type |-> "basic", ok |-> status \in {"200", "201"}, status |-> status,
     body |-> body, bodyUsed |-> FALSE]
NetworkError ==
    [type |-> "error", ok |-> FALSE, status |-> "0",
     body |-> Plain(InvalidText), bodyUsed |-> FALSE]

\* Error.message values.
BodyUsedMessage == <<"TypeError: body stream already read">>
SyntaxErrorMessage == <<"SyntaxError: Unexpected token in JSON">>
NotAFunctionMessage == <<"parsedRecipes.map is not a function">>
NotIterableMessage == <<"recognized is not iterable">>
FailedToFetchMessage == <<"Failed to fetch">>
FetchRecipesDefaultMessage == <<"Failed to fetch recipes from the server.">>
RecognizeDefaultMessage == <<"Failed to recognize ingredients.">>
ServerStatusMessage(status, text) ==
    <<"Server returned status ", status, ": ", text>>

Return(v) == [threw |-> FALSE, value |-> v]
Throw(m) == [threw |-> TRUE, value |-> m]

\* JSON.parse(text)
JSONparse(text) ==
    IF text.open = "" /\ text.close \in {"", Newline} /\ text.json.kind # "invalid"
    THEN Return(text.json)
    ELSE Throw(SyntaxErrorMessage)

\* Response.text(): the body can be read once.
ResponseText(resp) ==
    IF resp.bodyUsed THEN Throw(BodyUsedMessage) ELSE Return(resp.body)

\* Response.json(): reads the body, then parses it.
ResponseJson(resp) ==
    IF resp.bodyUsed THEN Throw(BodyUsedMessage) ELSE JSONparse(resp.body)

\* The Response after a read of its body.
Consumed(resp) == [resp EXCEPT !.bodyUsed = TRUE]

\* errorData.error || fallback
ErrorOr(errorData, fallback) ==
    IF errorData.error # Null /\ errorData.error[1] # ""
    THEN <<errorData.error[1]>> ELSE fallback

\* responseText.replace(/^<fence>json\s*/, '').replace(/<fence>$/, '')
CleanedText(responseText) ==
    [responseText EXCEPT
        !.open = "",
        !.close = IF @ = FenceClose THEN Newline ELSE @]

\* ({...recipe, id: index})
WithIdFromResponse(recipe, index) ==
    [f \in DOMAIN recipe \cup {"id"} |->
        IF f \in DOMAIN recipe THEN recipe[f] ELSE index]

WithId(recipe, index) ==
    [f \in DOMAIN recipe \cup {"id"} |-> IF f = "id" THEN index ELSE recipe[f]]

\* parsedRecipes.map((recipe, index) => ({...recipe, id: index}))
RecipesWithIds(parsedRecipes) ==
    [i \in 1..Len(parsedRecipes) |-> WithId(parsedRecipes[i], i - 1)]

\* The non-success branch of fetchRecipes: whatever the inner try throws, the
\* inner catch replaces it by the status message, built from a second read of
\* the body.
NotOkError(resp) ==
    LET inner == LET errorData == ResponseJson(resp)
                 IN IF errorData.threw THEN errorData
                    ELSE Throw(ErrorOr(errorData.value, FetchRecipesDefaultMessage))
        text == ResponseText(Consumed(resp))
    IN IF inner.threw
       THEN IF text.threw THEN text
            ELSE Throw(ServerStatusMessage(resp.status, text.value))
       ELSE inner

\* The try block of fetchRecipes, from the settled fetch on: the recipes that
\* setRecipes receives, or the message that the catch passes to setError.
FetchRecipesOutcome(resp) ==
    IF resp.type = "error" THEN Throw(FailedToFetchMessage)
    ELSE IF ~resp.ok THEN NotOkError(resp)
    ELSE LET responseText == ResponseText(resp)
             parsedRecipes == JSONparse(CleanedText(responseText.value))
         IN IF parsedRecipes.threw THEN parsedRecipes
            ELSE IF parsedRecipes.value.kind # "array" THEN Throw(NotAFunctionMessage)
            ELSE Return(RecipesWithIds(parsedRecipes.value.items))

\* The try block of reader.onloadend, from the settled fetch on: the list
\* that setIngredients receives, or the message for setRecognitionError.
\* `captured` is the ingredients of the render that started the recognition.
RecognizeOutcome(resp, captured) ==
    IF resp.type = "error" THEN Throw(FailedToFetchMessage)
    ELSE LET parsed == ResponseJson(resp)
         IN IF parsed.threw THEN parsed
            ELSE IF ~resp.ok THEN Throw(ErrorOr(parsed.value, RecognizeDefaultMessage))
            ELSE IF parsed.value.kind # "array" THEN Throw(NotIterableMessage)
            ELSE Return(ArrayFromSet(captured \o parsed.value.items))

-----------------------------------------------------------------------------
\* The filter effect of RecipesPage.

DifficultyStep(tempRecipes, difficulties) ==
    IF Len(difficulties) > 0
    THEN SelectSeq(tempRecipes, LAMBDA recipe : Includes(difficulties, recipe.difficulty))
    ELSE tempRecipes

TimeStepStrict(tempRecipes, maxTime) ==
    SelectSeq(tempRecipes, LAMBDA recipe : recipe.cookingTime < maxTime)

TimeStep(tempRecipes, maxTime) ==
    SelectSeq(tempRecipes, LAMBDA recipe : recipe.cookingTime <= maxTime)

\* A filter that numbers the recipes it keeps by their displayed position.
FilterRecipesRenumbering(list, difficulties, maxTime) ==
    LET kept == TimeStep(DifficultyStep(list, difficulties), maxTime)
    IN [i \in 1..Len(kept) |-> WithId(kept[i], i - 1)]

FilterRecipes(list, difficulties, maxTime) ==
    TimeStep(DifficultyStep(list, difficulties), maxTime)

\* prev.includes(d) ? prev.filter(x => x !== d) : [...prev, d]
Toggle(prev, difficulty) ==
    IF Includes(prev, difficulty)
    THEN SelectSeq(prev, LAMBDA d : d # difficulty)
    ELSE Append(prev, difficulty)

-----------------------------------------------------------------------------
\* Initial state: App on the home page, nothing in flight.

InitSearchParams ==
    [ingredients |-> <<>>, dietary |-> <<>>, servings |-> 2, cuisine |-> "Any"]

InitDietary == [vegetarian |-> FALSE, vegan |-> FALSE, glutenfree |-> FALSE]

\* HomePage's useState initial values.
HomePageInit ==
    /\ ingredients = <<>>
    /\ dietary = InitDietary
    /\ servings = 2
    /\ cuisine = "Any"
    /\ imageFile = 0
    /\ isRecognizing = FALSE
    /\ recognitionError = Null

\* RecipesPage's useState initial values.
RecipesPageInit ==
    /\ recipes = <<>>
    /\ isLoading = TRUE
    /\ error = Null
    /\ difficultyFilter = <<>>
    /\ maxTimeFilter = 120
    /\ filteredRecipes = <<>>
    /\ shownFrom = 0
    /\ response = Null

\* Unmounting discards a component's state: the next mount starts from the
\* useState initial values again.
HomePageUnmount ==
    /\ ingredients' = <<>>
    /\ dietary' = InitDietary
    /\ servings' = 2
    /\ cuisine' = "Any"
    /\ imageFile' = 0
    /\ isRecognizing' = FALSE
    /\ recognitionError' = Null

RecipesPageUnmount ==
    /\ recipes' = <<>>
    /\ isLoading' = TRUE
    /\ error' = Null
    /\ difficultyFilter' = <<>>
    /\ maxTimeFilter' = 120
    /\ filteredRecipes' = <<>>
    /\ shownFrom' = 0
    /\ response' = Null

Init ==
    /\ page = "home"
    /\ searchParams = InitSearchParams
    /\ selectedRecipe = Null
    /\ HomePageInit
    /\ RecipesPageInit
    /\ pendingEffects = {}
    /\ recognitions = {}
    /\ selections = 0
    /\ requests = {}
    /\ issuedCount = 0
    /\ lastIssued = Null
    /\ refetches = 0
    /\ visits = 0

\* The callbacks of an unmounted component still run; their setters do nothing.
Orphaned(inFlight) == {[a EXCEPT !.live = FALSE] : a \in inFlight}

\* React runs the effects of a render before it handles the next user event.
HomeEvent == page = "home" /\ pendingEffects = {}
RecipesEvent == page = "recipes" /\ pendingEffects = {}

-----------------------------------------------------------------------------
\* HomePage.

HandleAddIngredient(inputValue) ==
    /\ HomeEvent
    /\ LET formattedIngredient == toLowerCase(trim(inputValue))
       IN ingredients' =
            IF formattedIngredient # <<>> /\ ~Includes(ingredients, formattedIngredient)
            THEN Append(ingredients, formattedIngredient)
            ELSE ingredients
    /\ UNCHANGED <<appVars, dietary, servings, cuisine, imageFile, isRecognizing,
                   recognitionError, recognitions, selections, recipesVars,
                   netVars>>

AddPopularIngredient(ingredient) ==
    /\ HomeEvent
    /\ LET lowerCaseIngredient == toLowerCase(ingredient)
       IN ingredients' =
            IF ~Includes(ingredients, lowerCaseIngredient)
            THEN Append(ingredients, lowerCaseIngredient)
            ELSE ingredients
    /\ UNCHANGED <<appVars, dietary, servings, cuisine, imageFile, isRecognizing,
                   recognitionError, recognitions, selections, recipesVars,
                   netVars>>

\* The remove button of a rendered ingredient chip.
HandleRemoveIngredient(ingredientToRemove) ==
    /\ HomeEvent
    /\ Includes(ingredients, ingredientToRemove)
    /\ ingredients' = SelectSeq(ingredients, LAMBDA ing : ing # ingredientToRemove)
    /\ UNCHANGED <<appVars, dietary, servings, cuisine, imageFile, isRecognizing,
                   recognitionError, recognitions, selections, recipesVars,
                   netVars>>

HandleDietaryChange(name, checked) ==
    /\ HomeEvent
    /\ dietary' = [dietary EXCEPT ![name] = checked]
    /\ UNCHANGED <<appVars, ingredients, servings, cuisine, imageFile, isRecognizing,
                   recognitionError, recognitions, selections, recipesVars,
                   netVars>>

SetCuisine(c) ==
    /\ HomeEvent
    /\ cuisine' = c
    /\ UNCHANGED <<appVars, ingredients, dietary, servings, imageFile, isRecognizing,
                   recognitionError, recognitions, selections, recipesVars,
                   netVars>>

DecrementServingsUnfloored ==
    /\ HomeEvent
    /\ servings' = servings - 1
    /\ UNCHANGED <<appVars, ingredients, dietary, cuisine, imageFile, isRecognizing,
                   recognitionError, recognitions, selections, recipesVars,
                   netVars>>

\* The - button, disabled while servings <= 1.
DecrementServings ==
    /\ HomeEvent
    /\ ~(servings <= 1)
    /\ servings' = IF servings - 1 > 1 THEN servings - 1 ELSE 1
    /\ UNCHANGED <<appVars, ingredients, dietary, cuisine, imageFile, isRecognizing,
                   recognitionError, recognitions, selections, recipesVars,
                   netVars>>

IncrementServings ==
    /\ HomeEvent
    /\ servings' = servings + 1
    /\ UNCHANGED <<appVars, ingredients, dietary, cuisine, imageFile, isRecognizing,
                   recognitionError, recognitions, selections, recipesVars,
                   netVars>>

\* A file chosen in the file input: a new image selection.
HandleImageChange ==
    /\ HomeEvent
    /\ selections' = selections + 1
    /\ imageFile' = selections + 1
    /\ recognitionError' = Null
    /\ UNCHANGED <<appVars, ingredients, dietary, servings, cuisine, isRecognizing,
                   recognitions, recipesVars, netVars>>

HandleRecognizeIngredientsNeverDisabled ==
    /\ HomeEvent
    /\ imageFile # 0
    /\ isRecognizing' = TRUE
    /\ recognitionError' = Null
    /\ recognitions' = recognitions \cup
         {[sel |-> imageFile, captured |-> ingredients, phase |-> "reading",
           live |-> TRUE]}
    /\ UNCHANGED <<appVars, ingredients, dietary, servings, cuisine, imageFile,
                   selections, recipesVars, netVars>>

\* The recognize button: rendered when imageFile is set, disabled while
\* isRecognizing. The attempt keeps the ingredients of this render.
HandleRecognizeIngredients ==
    /\ HomeEvent
    /\ imageFile # 0
    /\ ~isRecognizing
    /\ isRecognizing' = TRUE
    /\ recognitionError' = Null
    /\ recognitions' = recognitions \cup
         {[sel |-> imageFile, captured |-> ingredients, phase |-> "reading",
           live |-> TRUE]}
    /\ UNCHANGED <<appVars, ingredients, dietary, servings, cuisine, imageFile,
                   selections, recipesVars, netVars>>

\* reader.onloadend: the file read is over, the recognition request goes out.
ReaderLoadEnd(attempt) ==
    /\ attempt \in recognitions
    /\ attempt.phase = "reading"
    /\ recognitions' = (recognitions \ {attempt}) \cup
                         {[attempt EXCEPT !.phase = "fetching"]}
    /\ UNCHANGED <<appVars, homeVars, selections, recipesVars, netVars>>

\* The recognition request settles: the rest of reader.onloadend.
RecognizeSettled(attempt, resp) ==
    /\ attempt \in recognitions
    /\ attempt.phase = "fetching"
    /\ recognitions' = recognitions \ {attempt}
    /\ IF attempt.live
       THEN LET outcome == RecognizeOutcome(resp, attempt.captured)
            IN /\ IF outcome.threw
                  THEN /\ recognitionError' = outcome.value
                       /\ UNCHANGED <<ingredients, imageFile>>
                  ELSE /\ ingredients' = outcome.value
                       /\ imageFile' = 0
                       /\ UNCHANGED recognitionError
               /\ isRecognizing' = FALSE
       ELSE UNCHANGED <<ingredients, imageFile, recognitionError, isRecognizing>>
    /\ UNCHANGED <<appVars, dietary, servings, cuisine, selections, recipesVars,
                   netVars>>

\* Find Recipes (disabled while the list is empty): handleSearch calls
\* App.handleFindRecipes, HomePage is unmounted and RecipesPage mounted with
\* both its effects to run.
HandleFindRecipes(ingredientList, selectedDietary, servingCount, cuisineChoice) ==
    /\ searchParams' = [ingredients |-> ingredientList, dietary |-> selectedDietary,
                        servings |-> servingCount, cuisine |-> cuisineChoice]
    /\ page' = "recipes"

HandleSearchNeverDisabled ==
    /\ HomeEvent
    /\ LET selectedDietary == SelectSeq(DietaryKeys, LAMBDA key : dietary[key])
       IN HandleFindRecipes(ingredients, selectedDietary, servings, cuisine)
    /\ HomePageUnmount
    /\ recognitions' = Orphaned(recognitions)
    /\ pendingEffects' = {"fetch", "filter"}
    /\ visits' = visits + 1
    /\ UNCHANGED <<selectedRecipe, selections, recipes, isLoading, error,
                   difficultyFilter, maxTimeFilter, filteredRecipes, shownFrom,
                   response, requests, issuedCount, lastIssued, refetches>>

HandleSearch ==
    /\ HomeEvent
    /\ ~(Len(ingredients) = 0)
    /\ LET selectedDietary == SelectSeq(DietaryKeys, LAMBDA key : dietary[key])
       IN HandleFindRecipes(ingredients, selectedDietary, servings, cuisine)
    /\ HomePageUnmount
    /\ recognitions' = Orphaned(recognitions)
    /\ pendingEffects' = {"fetch", "filter"}
    /\ visits' = visits + 1
    /\ UNCHANGED <<selectedRecipe, selections, recipes, isLoading, error,
                   difficultyFilter, maxTimeFilter, filteredRecipes, shownFrom,
                   response, requests, issuedCount, lastIssued, refetches>>

-----------------------------------------------------------------------------
\* RecipesPage.

\* A fetch effect that sends nothing when the query equals the last one sent.
FetchEffectSkippingRepeatedQuery ==
    /\ page = "recipes"
    /\ "fetch" \in pendingEffects
    /\ isLoading' = TRUE
    /\ error' = Null
    /\ IF lastIssued = Some(searchParams)
       THEN UNCHANGED <<issuedCount, lastIssued, refetches, requests>>
       ELSE /\ issuedCount' = issuedCount + 1
            /\ lastIssued' = Some(searchParams)
            /\ refetches' = refetches
            /\ requests' = requests \cup {[id |-> issuedCount + 1, live |-> TRUE]}
    /\ pendingEffects' = pendingEffects \ {"fetch"}
    /\ UNCHANGED <<appVars, homeVars, recognitions, selections, recipes,
                   difficultyFilter, maxTimeFilter, filteredRecipes, shownFrom,
                   response, visits>>

\* The fetch effect, run on mount (its dependencies are props of a page that
\* is unmounted before App can change them): the start of fetchRecipes, up to
\* the request it sends.
FetchEffect ==
    /\ page = "recipes"
    /\ "fetch" \in pendingEffects
    /\ isLoading' = TRUE
    /\ error' = Null
    /\ issuedCount' = issuedCount + 1
    /\ lastIssued' = Some(searchParams)
    /\ refetches' = IF lastIssued = Some(searchParams) THEN refetches + 1 ELSE refetches
    /\ requests' = requests \cup {[id |-> issuedCount + 1, live |-> TRUE]}
    /\ pendingEffects' = pendingEffects \ {"fetch"}
    /\ UNCHANGED <<appVars, homeVars, recognitions, selections, recipes,
                   difficultyFilter, maxTimeFilter, filteredRecipes, shownFrom,
                   response, visits>>

\* The filter effect, run on mount and after a render that changed recipes,
\* difficultyFilter or maxTimeFilter; declared after the fetch effect.
FilterEffect ==
    /\ page = "recipes"
    /\ "filter" \in pendingEffects
    /\ "fetch" \notin pendingEffects
    /\ filteredRecipes' = FilterRecipes(recipes, difficultyFilter, maxTimeFilter)
    /\ pendingEffects' = pendingEffects \ {"filter"}
    /\ UNCHANGED <<appVars, homeVars, recognitions, selections, recipes, isLoading,
                   error, difficultyFilter, maxTimeFilter, shownFrom, response,
                   netVars>>

AppliesAfterUnmount(request) == TRUE

\* Whether the settled request's setters reach the mounted RecipesPage.
Applies(request) == request.live

\* The generation request settles: the rest of fetchRecipes.
FetchSettled(request, resp) ==
    /\ request \in requests
    /\ requests' = requests \ {request}
    /\ IF Applies(request)
       THEN LET outcome == FetchRecipesOutcome(resp)
            IN /\ IF outcome.threw
                  THEN /\ error' = outcome.value
                       /\ UNCHANGED <<recipes, pendingEffects>>
                  ELSE /\ recipes' = outcome.value
                       /\ pendingEffects' = pendingEffects \cup {"filter"}
                       /\ UNCHANGED error
               /\ isLoading' = FALSE
               /\ shownFrom' = request.id
               /\ response' = Some(resp)
       ELSE UNCHANGED <<recipes, pendingEffects, error, isLoading, shownFrom, response>>
    /\ UNCHANGED <<appVars, homeVars, recognitions, selections, difficultyFilter,
                   maxTimeFilter, filteredRecipes, issuedCount, lastIssued, refetches,
                   visits>>

\* The filter panel is rendered once recipes have arrived.
FilterPanelShown == ~isLoading /\ error = Null /\ Len(recipes) > 0

HandleDifficultyToggle(difficulty) ==
    /\ RecipesEvent
    /\ FilterPanelShown
    /\ difficultyFilter' = Toggle(difficultyFilter, difficulty)
    /\ pendingEffects' = {"filter"}
    /\ UNCHANGED <<appVars, homeVars, recognitions, selections, recipes, isLoading,
                   error, maxTimeFilter, filteredRecipes, shownFrom, response,
                   netVars>>

\* The range input (min 10, max 120, step 5).
SetMaxTimeFilter(value) ==
    /\ RecipesEvent
    /\ FilterPanelShown
    /\ value # maxTimeFilter
    /\ maxTimeFilter' = value
    /\ pendingEffects' = {"filter"}
    /\ UNCHANGED <<appVars, homeVars, recognitions, selections, recipes, isLoading,
                   error, difficultyFilter, filteredRecipes, shownFrom, response,
                   netVars>>

\* A click on a rendered RecipeCard.
OnRecipeSelect(recipe) ==
    /\ RecipesEvent
    /\ ~isLoading /\ error = Null /\ Len(filteredRecipes) > 0
    /\ Includes(filteredRecipes, recipe)
    /\ selectedRecipe' = Some(recipe)
    /\ UNCHANGED <<page, searchParams, homeVars, recognitions, selections,
                   recipesVars, netVars>>

\* The close button of RecipeModal, rendered whenever a recipe is selected.
OnClose ==
    /\ selectedRecipe # Null
    /\ pendingEffects = {}
    /\ selectedRecipe' = Null
    /\ UNCHANGED <<page, searchParams, homeVars, recognitions, selections,
                   recipesVars, netVars>>

HandleBackToHomeResettingQuery ==
    /\ page' = "home"
    /\ searchParams' = InitSearchParams
    /\ UNCHANGED selectedRecipe

\* Back to Ingredients: RecipesPage is unmounted, HomePage mounted.
HandleBackToHome ==
    /\ page' = "home"
    /\ UNCHANGED <<searchParams, selectedRecipe>>

OnBack ==
    /\ RecipesEvent
    /\ HandleBackToHome
    /\ RecipesPageUnmount
    /\ requests' = Orphaned(requests)
    /\ UNCHANGED <<homeVars, recognitions, selections, pendingEffects,
                   issuedCount, lastIssued, refetches, visits>>

-----------------------------------------------------------------------------
\* Inputs and specifications.

SliderValues == {10 + 5 * k : k \in 0..22}

\* Texts typed into the ingredient input.
Rice == <<"R","i","c","e">>
RicePadded == <<" ","r","i","c","e"," ">>
Egg == <<"e","g","g">>
Blank == <<" "," ">>

\* Names the recognition service returns: it chooses their letter case.
ChickenCapital == <<"C","h","i","c","k","e","n">>
RiceUpper == <<"R","I","C","E">>

\* Recipe objects of a generation response; the service may send an id.
Omelette == [title |-> "Omelette", difficulty |-> "Easy", cookingTime |-> 20]
Risotto == [title |-> "Risotto", difficulty |-> "Easy", cookingTime |-> 40]
Wellington == [title |-> "Wellington", difficulty |-> "Hard", cookingTime |-> 10]
Curry == [title |-> "Curry", difficulty |-> "Medium", cookingTime |-> 30, id |-> 7]

ModelUnavailable == ObjectText(Some("model unavailable"))

\* The steps of the program, by the part of the screen they belong to. The
\* inputs are drawn from the sets of in, and the steps that make the state
\* grow are explored up to the limits of in.

\* The ingredient form, the chips and the quick-pick buttons.
StoreStep(in) ==
    \/ /\ Len(ingredients) < in.maxIngredients
       /\ \E inputValue \in in.typed : HandleAddIngredient(inputValue)
    \/ /\ Len(ingredients) < in.maxIngredients
       /\ \E i \in in.picks : AddPopularIngredient(popularIngredients[i])
    \/ \E i \in 1..Len(ingredients) : HandleRemoveIngredient(ingredients[i])

\* The cuisine, dietary and servings controls.
OptionsStep(in) ==
    \/ \E name \in in.dietaryKeys, checked \in BOOLEAN :
          HandleDietaryChange(name, checked)
    \/ \E c \in in.cuisines : SetCuisine(c)
    \/ DecrementServings
    \/ servings < in.maxServings /\ IncrementServings

\* The photo upload and the recognition it starts.
RecognitionStep(in) ==
    \/ selections < in.maxSelections /\ HandleImageChange
    \/ HandleRecognizeIngredients
    \/ \E attempt \in recognitions : ReaderLoadEnd(attempt)
    \/ \E attempt \in recognitions, resp \in in.recognized :
          RecognizeSettled(attempt, resp)

\* Find Recipes, the effects and the request of RecipesPage, and Back.
SearchStep(in) ==
    \/ visits < in.maxVisits /\ HandleSearch
    \/ FetchEffect
    \/ FilterEffect
    \/ \E request \in requests, resp \in in.generated : FetchSettled(request, resp)
    \/ OnBack

\* The filter panel, the recipe cards and the detail overlay.
ResultsStep(in) ==
    \/ \E d \in in.difficulties : HandleDifficultyToggle(d)
    \/ \E value \in in.times \cap SliderValues : SetMaxTimeFilter(value)
    \/ \E i \in 1..Len(filteredRecipes) : OnRecipeSelect(filteredRecipes[i])
    \/ OnClose

\* The whole program, with few values of each input: the four parts of the
\* query each take two values, a generation request succeeds or fails, and a
\* recognition returns one name.
NavInputs ==
    [typed |-> {Rice},
     picks |-> {3},
     maxIngredients |-> MaxIngredients,
     dietaryKeys |-> {"vegan"},
     cuisines |-> {"Italian"},
     maxServings |-> MaxServings,
     maxSelections |-> NavMaxSelections,
     recognized |-> {HttpResponse("200", Plain(ArrayText(<<Egg>>)))},
     maxVisits |-> MaxVisits,
     generated |-> {HttpResponse("200", Plain(ArrayText(<<Omelette>>))),
                    HttpResponse("500", Plain(ModelUnavailable))},
     difficulties |-> {"Hard"},
     times |-> {30}]

Next ==
    \/ StoreStep(NavInputs)
    \/ OptionsStep(NavInputs)
    \/ RecognitionStep(NavInputs)
    \/ SearchStep(NavInputs)
    \/ ResultsStep(NavInputs)

Spec == Init /\ [][Next]_vars

\* The ingredient store and the recognition flow: typed texts, quick picks and
\* recognized names in several letter cases, recognitions that fail, and the
\* user leaving for the recipes screen and coming back meanwhile. The query
\* options and the filter panel are left alone.
StoreInputs ==
    [typed |-> {RicePadded, Blank},
     picks |-> {1},
     maxIngredients |-> MaxIngredients,
     maxSelections |-> MaxSelections,
     recognized |-> {HttpResponse("200", Plain(ArrayText(<<ChickenCapital, RiceUpper,
                                                            ChickenCapital>>))),
                     HttpResponse("500", Plain(ModelUnavailable))},
     maxVisits |-> StoreMaxVisits,
     generated |-> {HttpResponse("200", Plain(ArrayText(<<Omelette>>)))}]

StoreNext ==
    \/ StoreStep(StoreInputs)
    \/ RecognitionStep(StoreInputs)
    \/ SearchStep(StoreInputs)

SpecStore == Init /\ [][StoreNext]_vars

\* The generation request and the results: every kind of response, the three
\* difficulties and three positions of the time slider, for one query.
FetchInputs ==
    [typed |-> {Rice},
     picks |-> {3},
     maxIngredients |-> MaxIngredients,
     maxVisits |-> FetchMaxVisits,
     generated |->
        {HttpResponse("200", Plain(ArrayText(<<Omelette, Risotto, Wellington>>))),
         HttpResponse("200", Body(FenceOpen, ArrayText(<<Curry, Wellington>>), FenceClose)),
         HttpResponse("200", Body(FenceOpen, ArrayText(<<Omelette>>), FenceCloseNewline)),
         HttpResponse("200", Plain(ArrayText(<<>>))),
         HttpResponse("200", Plain(ObjectText(Null))),
         HttpResponse("200", Plain(InvalidText)),
         HttpResponse("500", Plain(ModelUnavailable)),
         HttpResponse("500", Plain(InvalidText)),
         HttpResponse("404", Plain(ObjectText(Null))),
         HttpResponse("503", Body(FenceOpen, ModelUnavailable, FenceClose)),
         NetworkError},
     difficulties |-> {"Easy", "Medium", "Hard"},
     times |-> {10, 30, 120}]

FetchNext ==
    \/ StoreStep(FetchInputs)
    \/ SearchStep(FetchInputs)
    \/ ResultsStep(FetchInputs)

SpecFetch == Init /\ [][FetchNext]_vars

-----------------------------------------------------------------------------
\* Navigation between the two pages.

Back == page = "recipes" /\ page' = "home"

\* C3 (as claimed): recipes --back--> home leaves the Ingredient Store as it
\* was: after submit followed by back, the home screen's ingredient list is
\* again the list L that was submitted.
C3_BackRestoresIngredients ==
    [][Back => ingredients' = searchParams.ingredients]_vars

\* C5 (as claimed): a generation request is sent only for a query that
\* differs from the one sent before it: entering the recipes screen again
\* with the same four values sends no new request.
C5_NoRequestForRepeatedQuery == refetches = 0

\* C5 (amended): each visit of the recipes screen sends exactly one
\* generation request, carrying the submitted query, whether or not its four
\* values equal those of the previous visit.
C5_OneRequestPerVisit ==
    /\ issuedCount + (IF "fetch" \in pendingEffects THEN 1 ELSE 0) = visits
    /\ (page = "recipes" /\ "fetch" \notin pendingEffects)
          => lastIssued = Some(searchParams)

\* A second visit with the query of the first one has sent its request.
C5_Witness == visits = 2 /\ issuedCount = 2 /\ refetches = 1

C9_ShowsLatestQueryOnly ==
    (page = "recipes" /\ (~isLoading \/ error # Null))
        => /\ shownFrom = issuedCount
           /\ lastIssued = Some(searchParams)

\* The second visit shows its outcome while the first request is still in flight.
C9_Witness ==
    /\ page = "recipes" /\ ~isLoading
    /\ shownFrom = 2
    /\ \E request \in requests : request.id = 1 /\ ~request.live

\* C11: the recipes page is entered only by a submit with a non-empty
\* Ingredient Store: whenever the page is recipes the query's ingredient
\* sequence is non-empty, and before the first submit the page is home (the
\* initial page), with the initial search parameters.
C11_RecipesOnlyWithIngredients ==
    /\ page \in {"home", "recipes"}
    /\ page = "recipes" => searchParams.ingredients # <<>>
    /\ visits = 0 => (page = "home" /\ searchParams = InitSearchParams)

\* The recipes page entered a second time: the store of the new HomePage was
\* empty (Find Recipes disabled) until an ingredient was added again.
C11_Witness ==
    /\ page = "recipes" /\ visits = 2
    /\ Len(searchParams.ingredients) = 1

\* C12: the servings counter starts at 2 and never drops below 1: it is at
\* least 1 in every state, no step taken at 1 lowers it, and the servings of
\* every submitted query are at least 1.
C12_ServingsAtLeastOne ==
    /\ servings = 2
    /\ [](servings >= 1 /\ searchParams.servings >= 1)
    /\ [][servings = 1 => servings' >= 1]_vars
    /\ [][servings' < servings => servings > 1]_vars

\* A query submitted after one decrement: it asks for one serving.
C12_Witness == page = "recipes" /\ searchParams.servings = 1

\* C14 (as claimed): whenever the page is home no recipe is selected, so no
\* detail overlay is shown over the home page.
C14_HomeHasNoOverlay == page = "home" => selectedRecipe = Null

-----------------------------------------------------------------------------
\* The ingredient store and the recognition flow (SpecStore).

\* C4 (as claimed): after any sequence of add, addMany and remove, no two
\* entries of the Ingredient Store are equal under case-insensitive comparison.
C4_NoCaseInsensitiveDuplicates ==
    \A i, j \in 1..Len(ingredients) :
        i # j => toLowerCase(ingredients[i]) # toLowerCase(ingredients[j])

RecognitionSucceeds ==
    /\ page = "home" /\ page' = "home"
    /\ isRecognizing /\ ~isRecognizing'
    /\ imageFile # 0 /\ imageFile' = 0

\* C15 (as claimed): a successful recognition only adds to the store: the
\* store after the merge is the store as it was immediately before the
\* completion, followed by the recognized names it did not hold yet.
C15_MergeOnlyAdds ==
    [][RecognitionSucceeds =>
          \E resp \in StoreInputs.recognized :
              /\ resp.ok
              /\ ingredients' = ArrayFromSet(ingredients \o resp.body.json.items)]_vars

-----------------------------------------------------------------------------
\* The generation request and the results (SpecFetch).

\* The mounted RecipesPage holds the outcome of a response that was not
\* successful / that was successful.
Failed == page = "recipes" /\ response # Null /\ response[1].type = "basic"
            /\ ~response[1].ok
Succeeded == page = "recipes" /\ response # Null /\ response[1].ok

\* C1 (as claimed): after a non-success response whose body parses as JSON
\* with an error string, the displayed error is exactly that string.
C1_ShowsErrorField ==
    Failed =>
        LET errorData == JSONparse(response[1].body)
        IN (~errorData.threw /\ errorData.value.error # Null
                /\ errorData.value.error[1] # "")
              => error = <<errorData.value.error[1]>>

\* C2 (as claimed): after a non-success response whose body does not parse
\* as a structured error, the displayed error is the fallback message, which
\* embeds the status code and the raw body text.
C2_ShowsStatusAndText ==
    Failed =>
        (JSONparse(response[1].body).threw
            => error = ServerStatusMessage(response[1].status, response[1].body))

\* The predicate of the Filter Engine, as the specification states it.
Kept(r) ==
    /\ difficultyFilter = <<>> \/ \E i \in 1..Len(difficultyFilter) :
                                      difficultyFilter[i] = r.difficulty
    /\ r.cookingTime <= maxTimeFilter

\* C6: once the filter effect has run, the displayed list is exactly the
\* recipes of the fetched list that satisfy both predicates, in the fetched
\* order, and applying the time predicate first gives the same list.
C6_FilterIsExact ==
    (page = "recipes" /\ pendingEffects = {})
        => /\ filteredRecipes = SelectSeq(recipes, Kept)
           /\ filteredRecipes =
                DifficultyStep(TimeStep(recipes, maxTimeFilter), difficultyFilter)

\* The scenario of the specification: {Easy}, 30 minutes, three recipes, of
\* which only the first is kept.
C6_Witness ==
    /\ page = "recipes" /\ pendingEffects = {}
    /\ difficultyFilter = <<"Easy">> /\ maxTimeFilter = 30
    /\ Len(recipes) = 3 /\ Len(filteredRecipes) = 1
    /\ filteredRecipes[1] = recipes[1]

\* C10: after a successful response that parses to an array of N recipe
\* objects, the stored list has N entries in response order, the entry at
\* position i (from 0) has id i whatever id the response object carried, and
\* its other fields are the response's.
C10_IdsAreIndexes ==
    Succeeded =>
        LET parsed == JSONparse(CleanedText(response[1].body))
        IN (~parsed.threw /\ parsed.value.kind = "array")
              => LET items == parsed.value.items
                 IN /\ Len(recipes) = Len(items)
                    /\ \A i \in 1..Len(items) :
                          /\ recipes[i].id = i - 1
                          /\ \A f \in DOMAIN items[i] \ {"id"} :
                                recipes[i][f] = items[i][f]
                    /\ \A i, j \in 1..Len(recipes) :
                          recipes[i].id = recipes[j].id => i = j

\* A fenced response whose first object carried id 7: it is stored with id 0.
C10_Witness ==
    /\ Succeeded
    /\ Len(recipes) = 2
    /\ recipes[1].title = "Curry" /\ recipes[1].id = 0
    /\ recipes[2].id = 1

\* C13: on the recipes screen every recipe of the displayed (filtered) list
\* is an element of the fetched list currently held, also while the filter
\* effect that follows a change of the list or of a criterion is pending.
C13_FilteredWithinFetched ==
    page = "recipes" =>
        \A i \in 1..Len(filteredRecipes) : Includes(recipes, filteredRecipes[i])

\* A criterion has changed and the filter effect has not run yet: the
\* displayed list is not the one the new criteria select.
C13_Witness ==
    /\ page = "recipes" /\ pendingEffects = {"filter"}
    /\ filteredRecipes # <<>>
    /\ filteredRecipes # FilterRecipes(recipes, difficultyFilter, maxTimeFilter)

====
